---- MODULE Spec2Model ----
(***************************************************************************)
(* The flot-compareseries plugin (jquery.flot.compareseries.js): the hook  *)
(* compareSeries that the plot calls once per series while it processes    *)
(* its raw data, the helpers getSeries, flattenData and copySeries, and    *)
(* the closure counter currentSeries of init.                              *)
(*                                                                         *)
(* JavaScript objects are modelled with their identity: a series holds the *)
(* ADDRESS of its bars, lines and points option groups in the heap         *)
(* `groups`, and a group holds the address of its nested fill object in    *)
(* the heap `nested`.  A series object is identified by its position in    *)
(* the plot's series list, which never changes while the list lives.       *)
(***************************************************************************)
EXTENDS Integers, Sequences, FiniteSets

VARIABLES
    series,         \* plot.getData(): the plot's series list (positions 1..Len, JS index + 1)
    groups,         \* heap of the bars / lines / points option objects
    nested,         \* heap of the objects nested inside the option groups
    currentSeries,  \* the closure counter of init
    pos,            \* the host loop's index i: the JS index of the series to process next
    phase,          \* "processing" while the host loop runs, "done" after it,
                    \* "parsing" while setData builds a new list
    passes,         \* data-processing passes started on this plot
    mutations       \* style mutations made by later collaborators

vars == <<series, groups, nested, currentSeries, pos, phase, passes, mutations>>

----------------------------------------------------------------------------
(* Bounds of the model *)

MaxSeries == 2
MaxPts == 2
MaxPasses == 2
MaxMutations == 1

\* coordinates of a point: two values give <, = and >, and equal / distinct keys
Coord == {0, 1}
Point == Coord \X Coord

SeqsUpTo(S, n) == UNION {[1..k -> S] : k \in 0..n}

\* the list can hold the input series and two derived series for each of them
LenCap == 3 * MaxSeries + 2

----------------------------------------------------------------------------
(* Values *)

Null == "null"
Undefined == "undefined"
GroupNames == {"bars", "lines", "points"}

\* options.series.compare: the defaults of every series
DefaultCompare ==
    [enabled |-> FALSE, seriesIndex |-> 0,
     colorAbove |-> "#FF0000", colorBelow |-> "#00FF00"]

----------------------------------------------------------------------------
(* The helpers of the plugin *)

\* the value false that getSeries returns, as a record so that it can be compared
\* with a series
False == [false |-> TRUE]

\* a plausible bug: an index past the end is taken for the last series
getSeriesClamped(i) ==
    IF i \in 0..(Len(series) - 1) THEN series[i + 1] ELSE series[Len(series)]

\* getSeries(plot, i): the series at JS index i, or false
getSeries(i) ==
    IF i \in 0..(Len(series) - 1) THEN series[i + 1] ELSE False

\* flat[k] = v
Put(flat, k, v) ==
    [x \in (DOMAIN flat) \cup {k} |-> IF x = k THEN v ELSE flat[x]]

RECURSIVE flattenLoop(_, _, _, _)
flattenLoop(data, isVertical, i, flat) ==
    IF i > Len(data) THEN flat
    ELSE flattenLoop(data, isVertical, i + 1,
                     IF isVertical
                     THEN Put(flat, data[i][1], data[i][2])
                     ELSE Put(flat, data[i][2], data[i][1]))

\* a plausible bug: the first point with a key wins
RECURSIVE flattenLoopFirstWins(_, _, _, _)
flattenLoopFirstWins(data, isVertical, i, flat) ==
    IF i > Len(data) THEN flat
    ELSE LET k == IF isVertical THEN data[i][1] ELSE data[i][2]
             v == IF isVertical THEN data[i][2] ELSE data[i][1]
         IN  flattenLoopFirstWins(data, isVertical, i + 1,
                                  IF k \in DOMAIN flat THEN flat ELSE Put(flat, k, v))

flattenDataFirstWins(data, isVertical) ==
    flattenLoopFirstWins(data, isVertical, 1, [k \in {} |-> 0])

\* flattenData(data, isVertical): the points as an object of key: value pairs
flattenData(data, isVertical) ==
    flattenLoop(data, isVertical, 1, [k \in {} |-> 0])

\* a plausible bug: the copy is taken after the original was hidden
ShallowCopyHidden(g) == [g EXCEPT !.show = FALSE]

\* $.extend({}, group): a new object with the group's own properties; a property
\* that holds an object (fill) is copied as the same address
ShallowCopy(g) == g

\* a plausible bug: the copy keeps the compare settings of the series
copySeriesKeepsCompare(s, datapoints, color, origin, base) ==
    [copy |-> [s EXCEPT !.data = <<>>,
                        !.datapoints = [points |-> <<>>,
                                        pointsize |-> datapoints.pointsize,
                                        format |-> datapoints.format],
                        !.label = Null,
                        !.bars = base, !.lines = base + 1, !.points = base + 2,
                        !.color = color,
                        !.originSeries = <<origin>>],
     objects |-> <<ShallowCopy(groups[s.bars]), ShallowCopy(groups[s.lines]),
                   ShallowCopy(groups[s.points])>>]

\* copySeries(series, datapoints, color): the copy and its three new option
\* groups, allocated at base, base + 1 and base + 2.  origin is the identity of
\* the series copied (originSeries holds a reference to it, <<>> where a series
\* has none).
copySeries(s, datapoints, color, origin, base) ==
    [copy |-> [s EXCEPT !.data = <<>>,
                        !.datapoints = [points |-> <<>>,
                                        pointsize |-> datapoints.pointsize,
                                        format |-> datapoints.format],
                        !.label = Null,
                        !.bars = base, !.lines = base + 1, !.points = base + 2,
                        !.color = color,
                        !.originSeries = <<origin>>,
                        !.compare = [enabled |-> FALSE]],
     objects |-> <<ShallowCopy(groups[s.bars]), ShallowCopy(groups[s.lines]),
                   ShallowCopy(groups[s.points])>>]

\* a plausible bug: the orientation is never switched
isVerticalAlways(s) == TRUE

\* isVertical: true unless series.bars.show && series.bars.horizontal

isVerticalOf(s) == ~(groups[s.bars].show /\ groups[s.bars].horizontal)

\* a plausible bug: > for >=
goesAboveStrict(value, key, compareData) ==
    \/ IF key \in DOMAIN compareData THEN value > compareData[key] ELSE FALSE
    \/ ~(key \in DOMAIN compareData)

\* value >= compareData[key] || !compareData.hasOwnProperty(key); a comparison
\* with the undefined compareData[key] of an absent key is false
goesAbove(value, key, compareData) ==
    \/ IF key \in DOMAIN compareData THEN value >= compareData[key] ELSE FALSE
    \/ ~(key \in DOMAIN compareData)

\* the $.each loop over series.data: each point is pushed to above or to below
RECURSIVE eachLoop(_, _, _, _, _)
eachLoop(data, compareData, isVertical, i, acc) ==
    IF i > Len(data) THEN acc
    ELSE LET key   == IF isVertical THEN data[i][1] ELSE data[i][2]
             value == IF isVertical THEN data[i][2] ELSE data[i][1]
         IN  eachLoop(data, compareData, isVertical, i + 1,
                      IF goesAbove(value, key, compareData)
                      THEN [acc EXCEPT !.above = Append(@, data[i])]
                      ELSE [acc EXCEPT !.below = Append(@, data[i])])

\* a plausible bug: the point is pushed to the front
RECURSIVE eachLoopUnshift(_, _, _, _, _)
eachLoopUnshift(data, compareData, isVertical, i, acc) ==
    IF i > Len(data) THEN acc
    ELSE LET key   == IF isVertical THEN data[i][1] ELSE data[i][2]
             value == IF isVertical THEN data[i][2] ELSE data[i][1]
         IN  eachLoopUnshift(data, compareData, isVertical, i + 1,
                      IF goesAbove(value, key, compareData)
                      THEN [acc EXCEPT !.above = <<data[i]>> \o @]
                      ELSE [acc EXCEPT !.below = <<data[i]>> \o @])

splitDataUnshift(data, compareData, isVertical) ==
    eachLoopUnshift(data, compareData, isVertical, 1, [above |-> <<>>, below |-> <<>>])

splitData(data, compareData, isVertical) ==
    eachLoop(data, compareData, isVertical, 1, [above |-> <<>>, below |-> <<>>])

\* series.bars.show = series.lines.show = series.points.show = false
hideSeries(heap, s) ==
    [heap EXCEPT ![s.bars].show = FALSE, ![s.lines].show = FALSE,
                 ![s.points].show = FALSE]

----------------------------------------------------------------------------
(* The host: the plot that owns the series list and calls the hook *)

\* what the user gives for one series besides its points: the visibility flags
\* and the colours of the comparison
Styles ==
    { [barsShow |-> TRUE,  horizontal |-> FALSE, linesShow |-> FALSE, pointsShow |-> FALSE,
       colorAbove |-> "#FF0000", colorBelow |-> "#00FF00"],
      [barsShow |-> TRUE,  horizontal |-> TRUE,  linesShow |-> FALSE, pointsShow |-> TRUE,
       colorAbove |-> "blue", colorBelow |-> "orange"],
      [barsShow |-> FALSE, horizontal |-> TRUE,  linesShow |-> TRUE,  pointsShow |-> TRUE,
       colorAbove |-> "#FF0000", colorBelow |-> "#00FF00"],
      [barsShow |-> FALSE, horizontal |-> FALSE, linesShow |-> TRUE,  pointsShow |-> FALSE,
       colorAbove |-> "blue", colorBelow |-> "orange"] }

\* compare: off (the default), or on with a seriesIndex, which may name a
\* position the list does not have
Compares ==
    {[enabled |-> FALSE, seriesIndex |-> 0]}
        \cup [enabled : {TRUE}, seriesIndex : 0..MaxSeries]

UserSeries(DataSet, StyleSet, CompareSet) ==
    [data : DataSet, style : StyleSet, compare : CompareSet]

\* the points every series has where the claims are not about the points
FixedData == <<<<0, 1>>, <<1, 0>>, <<1, 1>>>>

\* the plots of Spec: one to MaxSeries series, every style and compare setting
PlotInputs ==
    UNION {[1..n -> UserSeries({FixedData}, Styles, Compares)] : n \in 1..MaxSeries}

\* the plots of SpecData: a subject at index 0 that compares to index 1, alone
\* or followed by its reference, with every point sequence for both
DataInputs ==
    LET subject   == UserSeries(SeqsUpTo(Point, MaxPts), Styles,
                                {[enabled |-> TRUE, seriesIndex |-> 1]})
        reference == UserSeries(SeqsUpTo(Point, MaxPts),
                                {st \in Styles : st.colorAbove = "blue"},
                                {[enabled |-> FALSE, seriesIndex |-> 0]})
    IN  {<<s>> : s \in UserSeries({FixedData}, Styles, {[enabled |-> TRUE, seriesIndex |-> 1]})}
            \cup {<<s, r>> : s \in subject, r \in reference}

\* the plots of SpecFair: one to MaxSeries series of one style, every compare setting
PassInputs ==
    UNION {[1..n -> UserSeries({FixedData},
                               {st \in Styles : st.barsShow /\ ~st.horizontal},
                               Compares)] : n \in 1..MaxSeries}

\* parseData: one series object per user series, each with option groups and
\* nested objects of its own (the host deep-copies the options into it)
parseSeries(d) ==
    [i \in 1..Len(d) |->
        [data |-> d[i].data,
         datapoints |-> [points |-> <<>>, pointsize |-> Undefined, format |-> Undefined],
         label |-> "label",
         color |-> "auto",
         bars |-> 3 * (i - 1) + 1, lines |-> 3 * (i - 1) + 2, points |-> 3 * (i - 1) + 3,
         compare |-> [DefaultCompare EXCEPT !.enabled = d[i].compare.enabled,
                                            !.seriesIndex = d[i].compare.seriesIndex,
                                            !.colorAbove = d[i].style.colorAbove,
                                            !.colorBelow = d[i].style.colorBelow],
         originSeries |-> <<>>]]

parseGroups(d) ==
    [a \in 1..(3 * Len(d)) |->
        LET st == d[((a - 1) \div 3) + 1].style IN
        CASE a % 3 = 1 -> [show |-> st.barsShow, horizontal |-> st.horizontal, fill |-> a]
          [] a % 3 = 2 -> [show |-> st.linesShow, fill |-> a]
          [] OTHER     -> [show |-> st.pointsShow, fill |-> a]]

parseNested(d) == [a \in 1..(3 * Len(d)) |-> 0]

----------------------------------------------------------------------------
(* The hook *)

\* a plausible bug: a series is never taken for itself
isSkippedNoSelfCheck(s, current) ==
    IF ~s.compare.enabled THEN TRUE ELSE FALSE

\* !series.compare.enabled || series.compare.seriesIndex === currentSeries, with
\* currentSeries already incremented; the index is read only when enabled is true
isSkipped(s, current) ==
    IF ~s.compare.enabled THEN TRUE ELSE s.compare.seriesIndex = current

\* compareSeries(plot, series, data, datapoints) on the series s at position self
compareSeries(s, self, datapoints) ==
    /\ currentSeries' = currentSeries + 1
    /\ \/ /\ isSkipped(s, currentSeries + 1)
          /\ UNCHANGED <<series, groups>>
       \/ /\ ~isSkipped(s, currentSeries + 1)
          /\ getSeries(s.compare.seriesIndex) = False
          /\ UNCHANGED <<series, groups>>
       \/ /\ ~isSkipped(s, currentSeries + 1)
          /\ getSeries(s.compare.seriesIndex) # False
          /\ LET comparedSeries == getSeries(s.compare.seriesIndex)
                 isVertical     == isVerticalOf(s)
                 compareData    == flattenData(comparedSeries.data, isVertical)
                 base           == Len(groups) + 1
                 above          == copySeries(s, datapoints, s.compare.colorAbove, self, base)
                 below          == copySeries(s, datapoints, s.compare.colorBelow, self, base + 3)
                 split          == splitData(s.data, compareData, isVertical)
             IN  /\ groups' = hideSeries(groups \o above.objects \o below.objects, s)
                 /\ series' = series \o <<[above.copy EXCEPT !.data = split.above],
                                          [below.copy EXCEPT !.data = split.below]>>

\* one iteration of the host loop: the hook is called on series[i], with the
\* empty datapoints object the host has just given it.  The list never grows
\* past 3 * MaxSeries; LenCap only keeps a variant of the hook that would grow
\* it for ever finite
CompareSeries ==
    /\ phase = "processing"
    /\ pos < Len(series)
    /\ Len(series) <= LenCap
    /\ compareSeries(series[pos + 1], pos + 1,
                     [points |-> <<>>, pointsize |-> Undefined, format |-> Undefined])
    /\ pos' = pos + 1
    /\ UNCHANGED <<nested, phase, passes, mutations>>

\* the host loop ends when its index reaches the length the list has by then
PassEnd ==
    /\ phase = "processing"
    /\ pos = Len(series)
    /\ phase' = "done"
    /\ UNCHANGED <<series, groups, nested, currentSeries, pos, passes, mutations>>

\* plot.setData(d) is called on the plot again: the list of the pass before is
\* dropped.  init is not run again, so currentSeries keeps its value
SetData ==
    /\ phase = "done"
    /\ passes < MaxPasses
    /\ series' = <<>>
    /\ groups' = <<>>
    /\ nested' = <<>>
    /\ pos' = 0
    /\ phase' = "parsing"
    /\ passes' = passes + 1
    /\ UNCHANGED <<currentSeries, mutations>>

\* parseData(d) in setData: the list is built from the user's series, and the
\* processing loop starts at index 0
ParseData(Inputs) ==
    /\ phase = "parsing"
    /\ \E d \in Inputs :
          /\ series' = parseSeries(d)
          /\ groups' = parseGroups(d)
          /\ nested' = parseNested(d)
    /\ phase' = "processing"
    /\ UNCHANGED <<currentSeries, pos, passes, mutations>>

\* a later collaborator changes one style value of one series in place: the show
\* flag of one of its groups, or the value inside the group's nested object
Mutate ==
    /\ phase = "done"
    /\ mutations < MaxMutations
    /\ mutations' = mutations + 1
    /\ \E i \in 1..Len(series), g \in GroupNames :
          \/ /\ groups' = [groups EXCEPT ![series[i][g]].show = ~@]
             /\ UNCHANGED nested
          \/ /\ nested' = [nested EXCEPT ![groups[series[i][g]].fill] = 1 - @]
             /\ UNCHANGED groups
    /\ UNCHANGED <<series, currentSeries, pos, phase, passes>>

\* the plot after construction: init has run (currentSeries = -1) and setData
\* has parsed the user's series; the first pass is about to start
InitWith(Inputs) ==
    /\ \E d \in Inputs :
          /\ series = parseSeries(d)
          /\ groups = parseGroups(d)
          /\ nested = parseNested(d)
    /\ currentSeries = -1
    /\ pos = 0
    /\ phase = "processing"
    /\ passes = 1
    /\ mutations = 0

Init == InitWith(PlotInputs)
Next == CompareSeries \/ PassEnd \/ SetData \/ ParseData(PlotInputs)
Spec == Init /\ [][Next]_vars

\* the classification alone: every point sequence, one pass
InitData == InitWith(DataInputs)
NextData == CompareSeries \/ PassEnd
SpecData == InitData /\ [][NextData]_vars

\* the plot with a collaborator that mutates styles after the pass
NextAlias == CompareSeries \/ PassEnd \/ Mutate
SpecAlias == Init /\ [][NextAlias]_vars

\* the passes alone, with the host loop's progress: the loop is synchronous, so
\* an iteration or the end of the loop that can happen does happen
InitPass == InitWith(PassInputs)
NextPass == CompareSeries \/ PassEnd \/ SetData \/ ParseData(PassInputs)
SpecFair == InitPass /\ [][NextPass]_vars /\ WF_vars(CompareSeries) /\ WF_vars(PassEnd)

----------------------------------------------------------------------------
(* What the properties speak of *)

\* a step that is one call of the hook: only the hook changes the counter
HookStep == currentSeries' = currentSeries + 1

\* a call of the hook that partitions its subject
Partitions == HookStep /\ Len(series') = Len(series) + 2

\* the three visibility flags of series s in the heap grp
Shows(grp, s) == <<grp[s.bars].show, grp[s.lines].show, grp[s.points].show>>

\* every style value of series s, the nested ones included
StyleView(grp, nst, s) ==
    [g \in GroupNames |-> [group |-> grp[s[g]], inside |-> nst[grp[s[g]].fill]]]

\* the points of data at the positions in S, in the order of data
Pick(data, S) ==
    LET F[i \in 0..Len(data)] ==
            IF i = 0 THEN <<>>
            ELSE IF i \in S THEN Append(F[i - 1], data[i]) ELSE F[i - 1]
    IN  F[Len(data)]

KeyOf(p, vertical) == IF vertical THEN p[1] ELSE p[2]
ValueOf(p, vertical) == IF vertical THEN p[2] ELSE p[1]

\* the lookup of the rule: each key of ref with the value of the LAST point of
\* ref that has the key
LastWins(ref, vertical) ==
    [k \in {KeyOf(ref[i], vertical) : i \in DOMAIN ref} |->
        LET last == CHOOSE i \in DOMAIN ref :
                        /\ KeyOf(ref[i], vertical) = k
                        /\ \A j \in DOMAIN ref : KeyOf(ref[j], vertical) = k => j <= i
        IN  ValueOf(ref[last], vertical)]

\* the positions of data that the rule puts in 'above'
RuleAbove(data, ref, vertical) ==
    LET lookup == LastWins(ref, vertical) IN
    {i \in DOMAIN data :
        IF KeyOf(data[i], vertical) \in DOMAIN lookup
        THEN ValueOf(data[i], vertical) >= lookup[KeyOf(data[i], vertical)]
        ELSE TRUE}

Swap(data) == [i \in DOMAIN data |-> <<data[i][2], data[i][1]>>]

\* the series that came with the plot's data, and those of them that were partitioned
InitialPositions == {k \in 1..Len(series) : series[k].originSeries = <<>>}
PartitionedPositions ==
    {k \in InitialPositions : \E j \in 1..Len(series) : series[j].originSeries = <<k>>}

\* positions k, k + 1 hold the 'above' and 'below' made from the series at position o
DerivedPair(k, o) ==
    /\ k \in 1..(Len(series) - 1)
    /\ series[k].originSeries = <<o>>
    /\ series[k + 1].originSeries = <<o>>
    /\ (k - Cardinality(InitialPositions)) % 2 = 1

----------------------------------------------------------------------------
(* C1 *)

\* C1: when the hook partitions a subject whose reference is another existing
\* series, 'above' holds exactly the subject's points whose key the reference
\* lacks or whose value is >= the value of the LAST reference point with that
\* key, and 'below' holds the others.
C1_ClassifiedByLastWinsRule ==
    [][ (/\ Partitions
         /\ series[pos + 1].compare.seriesIndex \in 0..(Len(series) - 1)
         /\ series[pos + 1].compare.seriesIndex # pos)
        => LET subject  == series[pos + 1]
               ref      == series[subject.compare.seriesIndex + 1]
               vertical == ~(groups[subject.bars].show /\ groups[subject.bars].horizontal)
               A        == RuleAbove(subject.data, ref.data, vertical)
           IN  /\ series'[Len(series) + 1].data = Pick(subject.data, A)
               /\ series'[Len(series) + 2].data
                      = Pick(subject.data, (DOMAIN subject.data) \ A) ]_vars

\* a vertical subject was partitioned against a reference with two values for
\* one key; a point with a key the reference lacks went above, another went below
C1_Witness ==
    /\ Len(series) = 4
    /\ DerivedPair(3, 1)
    /\ ~(groups[series[3].bars].show /\ groups[series[3].bars].horizontal)
    /\ \E i, j \in DOMAIN series[2].data :
          i < j /\ series[2].data[i][1] = series[2].data[j][1]
                /\ series[2].data[i][2] # series[2].data[j][2]
    /\ \E p \in DOMAIN series[3].data :
          \A q \in DOMAIN series[2].data : series[2].data[q][1] # series[3].data[p][1]
    /\ series[4].data # <<>>

----------------------------------------------------------------------------
(* C2 *)

\* C2: when the hook partitions a subject, there is a set A of positions of the
\* subject's data such that 'above' is the points at A and 'below' the points
\* at the other positions, each in the subject's order; the lengths add up to
\* N, and the subject's data is what it was.
C2_StablePartition ==
    [][ Partitions
        => LET data  == series[pos + 1].data
               above == series'[Len(series) + 1].data
               below == series'[Len(series) + 2].data
           IN  /\ \E A \in SUBSET (DOMAIN data) :
                     /\ above = Pick(data, A)
                     /\ below = Pick(data, (DOMAIN data) \ A)
               /\ Len(above) + Len(below) = Len(data)
               /\ series'[pos + 1].data = data ]_vars

\* a partition put two different points in the same derived series
C2_Witness ==
    \E k \in 1..Len(series) :
        /\ series[k].originSeries # <<>>
        /\ Len(series[k].data) >= 2
        /\ series[k].data[1] # series[k].data[2]
        /\ series[k].data = series[series[k].originSeries[1]].data

----------------------------------------------------------------------------
(* C3 *)

\* C3: a call of the hook on a series with compare enabled whose seriesIndex is
\* its own position changes neither the series list nor any style value.
C3_SelfComparisonIsNoOp ==
    [][ (/\ HookStep
         /\ series[pos + 1].compare.enabled
         /\ series[pos + 1].compare.seriesIndex = pos)
        => /\ series' = series
           /\ groups' = groups ]_vars

----------------------------------------------------------------------------
(* C4 *)

\* C4: a call of the hook on a series with compare disabled, or with a
\* seriesIndex that names no position of the list, changes nothing: the list,
\* the option groups and the nested objects are what they were.
C4_DisabledOrMissingIsNoOp ==
    [][ (/\ HookStep
         /\ IF ~series[pos + 1].compare.enabled THEN TRUE
            ELSE ~(series[pos + 1].compare.seriesIndex \in 0..(Len(series) - 1)))
        => /\ series' = series
           /\ groups' = groups
           /\ nested' = nested ]_vars

\* the hook has just been called on an enabled series whose seriesIndex is past
\* the end of the list, and no series was made from it
C4_Witness ==
    /\ phase = "processing"
    /\ pos >= 1
    /\ currentSeries >= 0
    /\ series[pos].originSeries = <<>>
    /\ series[pos].compare.enabled
    /\ series[pos].compare.seriesIndex >= Len(series)
    /\ series[pos].compare.seriesIndex # pos - 1
    /\ \A j \in 1..Len(series) : series[j].originSeries # <<pos>>

----------------------------------------------------------------------------
(* C5 *)

\* C5: a call of the hook that partitions a subject appends two entries and
\* keeps every entry it found; it sets the subject's three show flags to false
\* and changes no other style value of the subject; the reference series and
\* every other series it found keep their data and all their style values.
C5_PartitionFrame ==
    [][ Partitions
        => LET n       == Len(series)
               subject == series[pos + 1]
               ref     == series[subject.compare.seriesIndex + 1]
           IN  /\ SubSeq(series', 1, n) = series
               /\ series'[n + 1].color = subject.compare.colorAbove
               /\ series'[n + 2].color = subject.compare.colorBelow
               /\ SubSeq(groups', 1, Len(groups)) = hideSeries(groups, subject)
               /\ nested' = nested
               /\ \A k \in 1..n :
                     k # pos + 1 =>
                         StyleView(groups', nested', series'[k])
                             = StyleView(groups, nested, series[k])
               /\ StyleView(groups', nested', ref) = StyleView(groups, nested, ref) ]_vars

----------------------------------------------------------------------------
(* C6 *)

\* C6: when a style value of one series is changed in place, then of a subject
\* and the 'above' and 'below' made from it, at most one sees any of its style
\* values (nested ones included) change.
C6_NoSharedStyle ==
    [][ (mutations' = mutations + 1)
        => \A k, o \in 1..Len(series) :
              DerivedPair(k, o)
              => Cardinality({m \in {o, k, k + 1} :
                                 StyleView(groups', nested', series[m])
                                     # StyleView(groups, nested, series[m])}) <= 1 ]_vars

----------------------------------------------------------------------------
(* C7 *)

\* C7: at every call of the hook, the counter after its increment is the
\* 0-based position of the series the hook is called on.
C7_CounterIsPosition ==
    [][ HookStep => currentSeries' = pos ]_vars

----------------------------------------------------------------------------
(* C8 *)

\* C8: when the hook partitions a subject, the orientation is horizontal iff the
\* subject's bars.show and bars.horizontal are both true; 'above' and 'below'
\* under the horizontal orientation are the points that the vertical rule
\* (key = first coordinate, value = second) puts there for the subject's and
\* the reference's points with their coordinates swapped.  The flags of the
\* reference play no part.
C8_HorizontalIsSwappedVertical ==
    [][ (/\ Partitions
         /\ series[pos + 1].compare.seriesIndex # pos)
        => LET subject    == series[pos + 1]
               ref        == series[subject.compare.seriesIndex + 1]
               horizontal == groups[subject.bars].show /\ groups[subject.bars].horizontal
               A          == IF horizontal
                             THEN RuleAbove(Swap(subject.data), Swap(ref.data), TRUE)
                             ELSE RuleAbove(subject.data, ref.data, TRUE)
           IN  /\ series'[Len(series) + 1].data = Pick(subject.data, A)
               /\ series'[Len(series) + 2].data
                      = Pick(subject.data, (DOMAIN subject.data) \ A) ]_vars

\* a subject drawn as horizontal bars was partitioned against a reference that
\* is not, and the split differs from the one the vertical reading gives
C8_Witness ==
    /\ Len(series) = 4
    /\ DerivedPair(3, 1)
    /\ groups[series[3].bars].show /\ groups[series[3].bars].horizontal
    /\ ~groups[series[2].bars].show
    /\ series[3].data # <<>>
    /\ series[4].data # <<>>
    /\ series[3].data
          # Pick(series[1].data, RuleAbove(series[1].data, series[2].data, TRUE))

----------------------------------------------------------------------------
(* C9 *)

\* C9: after a call of the hook that partitions a subject, the subject's three
\* show flags are false; 'above' and 'below' have the show flags the subject
\* had before the call, the label null, compare.enabled false, originSeries
\* the subject, and the colours compare.colorAbove and compare.colorBelow.
C9_SubjectHiddenCopiesShown ==
    [][ Partitions
        => LET n       == Len(series)
               subject == series[pos + 1]
               above   == series'[n + 1]
               below   == series'[n + 2]
           IN  /\ Shows(groups', series'[pos + 1]) = <<FALSE, FALSE, FALSE>>
               /\ Shows(groups', above) = Shows(groups, subject)
               /\ Shows(groups', below) = Shows(groups, subject)
               /\ above.label = Null /\ below.label = Null
               /\ ~above.compare.enabled /\ ~below.compare.enabled
               /\ above.originSeries = <<pos + 1>> /\ below.originSeries = <<pos + 1>>
               /\ above.color = subject.compare.colorAbove
               /\ below.color = subject.compare.colorBelow ]_vars

\* a subject that was drawn is hidden, and the two series made from it are drawn
C9_Witness ==
    \E k, o \in 1..Len(series) :
        /\ DerivedPair(k, o)
        /\ Shows(groups, series[o]) = <<FALSE, FALSE, FALSE>>
        /\ Shows(groups, series[k]) = Shows(groups, series[k + 1])
        /\ \E x \in 1..3 : Shows(groups, series[k])[x]
        /\ series[k].color # series[k + 1].color

----------------------------------------------------------------------------
(* C10 *)

\* what holds of the list all through a pass: a derived series has compare
\* disabled and is made from a series of the plot's data, never from a derived
\* one; the list is the data's series plus two for each partitioned one
PassLength ==
    /\ \A j \in 1..Len(series) :
          series[j].originSeries # <<>>
          => /\ ~series[j].compare.enabled
             /\ series[j].originSeries[1] \in InitialPositions
    /\ Len(series) = Cardinality(InitialPositions) + 2 * Cardinality(PartitionedPositions)
    /\ phase = "done" => pos = Len(series)

\* C10: a pass in which the hook is called on every entry of the list, those
\* appended during the pass included, ends; no derived series is partitioned,
\* and the list ends with the length of the data plus 2 for each series of the
\* data that was partitioned.
C10_PassTerminates ==
    /\ []PassLength
    /\ (phase = "processing") ~> (phase = "done")

\* a pass has ended in which a series was partitioned and the hook was then
\* called on the two series made from it
C10_Witness ==
    /\ phase = "done"
    /\ PartitionedPositions # {}
    /\ pos = Len(series)
    /\ Len(series) > Cardinality(InitialPositions)

====
